---- MODULE Spec2Model ----
(***************************************************************************)
(* Job orchestration core of the training server: JobManager               *)
(* (app/services/job_manager.py), the /jobs HTTP endpoints that call it    *)
(* (app/routers/jobs.py) and the YOLOTrainer runner it drives              *)
(* (app/services/yolo_trainer.py), and the broadcast hub SSEManager         *)
(* (app/services/sse_manager.py) with the streams it feeds.                *)
(*                                                                         *)
(* Scheduling.  Everything runs on one asyncio event loop.  A coroutine    *)
(* only yields to the loop where it awaits something that really suspends. *)
(* save_jobs, add_job_event, create_job, start_job and cancel_job do plain *)
(* synchronous work behind their `await`s, so each handler is one atomic   *)
(* step.  YOLOTrainer.train calls the blocking model.train(...) and never  *)
(* suspends either, so the body of _run_training runs to completion in one *)
(* step of the loop once its task is scheduled.  The tasks created with    *)
(* asyncio.create_task (one per started job, one per epoch callback) wait  *)
(* in the loop's FIFO ready queue, modelled by `ready`.  A task cancelled  *)
(* before its first step never enters its coroutine body.                  *)
(***************************************************************************)
EXTENDS Integers, Sequences, FiniteSets, TLC

\* ---------------------------------------------------------------- bounds
NumIds    == 4   \* size of the space generate_job_id draws from
MaxEpochs == 1   \* config.epochs of the requests; epochs a runner completes
MaxEvents == 3   \* HTTP requests and process restarts in one behaviour
MaxRequests == MaxEvents + 1   \* the same in the behaviours of LongSpec
MaxAppends == 1002  \* add_job_event calls in one behaviour of LogSpec
NumQueues == 2   \* streams opened on the hub in one behaviour of HubSpec
NumKeys   == 2   \* job ids named to the hub
MaxStreamOps == 3   \* stream and publish operations in one behaviour of StreamSpec
MaxDiskOps == 2   \* HTTP requests and restarts in one behaviour of DiskSpec
MaxHubOps == 4   \* subscribe, publish and read requests in one behaviour

\* ------------------------------------------------------ program constants
MAX_CONCURRENT_JOBS == 2
MAX_EVENTS == 1000
QUEUE_MAXSIZE == 100

JobIds == 1..NumIds

\* JobStatus values
PENDING   == "pending"
RUNNING   == "running"
COMPLETED == "completed"
FAILED    == "failed"
CANCELLED == "cancelled"
JobStatus == {PENDING, RUNNING, COMPLETED, FAILED, CANCELLED}
Terminal  == {COMPLETED, FAILED, CANCELLED}

\* Encodings of Python's None and of a key missing from self.jobs
NoTime == -1
NoMsg  == "None"
NoJob  == [status |-> "absent"]

\* The messages of the ValueErrors raised by start_job / cancel_job,
\* named by the error kind they stand for
NotFound         == "Job nao encontrado"
InvalidState     == "Job nao esta pendente"
CapacityExceeded == "Limite de jobs simultaneos atingido"
RestartMsg       == "Sistema reiniciado durante execucao"
NotRunning       == "Job nao esta em execucao"
NotPaused        == "Job nao esta pausado"
NotImplemented   == "ainda nao implementada"

VARIABLES
  jobs,        \* self.jobs: id -> TrainingJob (NoJob when the key is missing)
  active_jobs, \* keys of self.active_jobs
  job_events,  \* self.job_events: id -> list of events
  jobs_file,   \* contents of DATA_DIR/jobs.json
  ready,       \* tasks created with asyncio.create_task, not yet run
  clock,       \* datetime.now(): every reading is later than the one before
  budget,      \* requests and restarts the environment may still issue
  last,        \* the last operation: what was called and what it answered
  jobs_router, \* the JobManager of routers/jobs.py: its jobs, active_jobs
  connections,     \* SSEManager.connections: topic -> set of queues
  job_connections, \* SSEManager.job_connections: job id -> set of queues
  last_state,      \* SSEManager.last_state: topic -> cached payload
  mailbox,     \* the asyncio.Queue of every stream: frames not yet read
  putters,     \* publishers suspended in queue.put on a full queue
  streams,     \* the open event streams: topic and job id of each queue
  delivered,   \* the frames every stream has yielded to its client
  published    \* the messages handed to the hub's broadcast_* methods

hubvars == <<connections, job_connections, last_state, mailbox, putters,
             streams, delivered, published>>

vars == <<jobs, active_jobs, job_events, jobs_file, ready, clock, budget,
          last, jobs_router, hubvars>>

\* ------------------------------------------------------------- job records
NoMetrics == [epoch |-> -1, total_epochs |-> -1]

RECURSIVE Gcd(_, _)
Gcd(a, b) == IF b = 0 THEN a ELSE Gcd(b, a % b)

\* (metrics.epoch / metrics.total_epochs) * 100, kept exact as a fraction
\* <<numerator, denominator>> in lowest terms
Percent(e, t) == LET g == Gcd(100 * e, t) IN <<(100 * e) \div g, t \div g>>

\* TrainingJob(id=..., status=PENDING, config=request.config, ...) with the
\* defaults of the model class; obj is the identity of the Python object
NewJob(o, epochs) ==
  [obj |-> o, status |-> PENDING, epochs |-> epochs,
   started_at |-> NoTime, completed_at |-> NoTime,
   current_epoch |-> 0, progress_percent |-> <<0, 1>>,
   metrics |-> NoMetrics, best_metrics |-> NoMsg, model_path |-> NoMsg,
   error_message |-> NoMsg]

HasJob(js, id) == js[id] # NoJob

\* JobManager(): no job, no task; only initialize() reads jobs.json
FreshManager == [jobs |-> [id \in JobIds |-> NoJob], active_jobs |-> {}]

RunningCount(js) == Cardinality({i \in JobIds : js[i].status = RUNNING})

\* A task of the event loop: the execution unit of a job (_run_training)
\* or one progress callback scheduled by the trainer.  obj is the job object
\* the coroutine closed over.
UnitTask(id, o, epochs) ==
  [kind |-> "unit", id |-> id, obj |-> o, cancelled |-> FALSE,
   epoch |-> 0, total |-> epochs]
CallbackTask(id, o, e, t) ==
  [kind |-> "callback", id |-> id, obj |-> o, cancelled |-> FALSE,
   epoch |-> e, total |-> t]

\* Object identities in use for job id: the object in the table and the
\* objects still referenced by waiting tasks
UsedObjs(id) ==
  (IF HasJob(jobs, id) THEN {jobs[id].obj} ELSE {})
    \cup {ready[i].obj : i \in {j \in 1..Len(ready) : ready[j].id = id}}
FreshObj(id) == CHOOSE o \in 1..(MaxRequests + 1) :
                  /\ o \notin UsedObjs(id)
                  /\ \A p \in 1..(o - 1) : p \in UsedObjs(id)

\* ------------------------------------------------------------ persistence
\* datetime.isoformat() and its parse by the model class on load
IsoTable == [t \in 0..(2 * MaxRequests) |-> "T" \o ToString(t)]
IsoFormat(t) == IsoTable[t]
ParseIso(s) == CHOOSE t \in DOMAIN IsoTable : IsoTable[t] = s

SerializeField(t) == IF t # NoTime THEN IsoFormat(t) ELSE "null"
ParseField(s) == IF s = "null" THEN NoTime ELSE ParseIso(s)

\* Serialize that leaves the completion time out of the file
Serialize_nostamp(job) ==
  [status |-> job.status, epochs |-> job.epochs,
   started_at |-> SerializeField(job.started_at),
   completed_at |-> "null",
   current_epoch |-> job.current_epoch,
   progress_percent |-> job.progress_percent,
   metrics |-> job.metrics, best_metrics |-> job.best_metrics,
   model_path |-> job.model_path, error_message |-> job.error_message]

\* one element of jobs_data: job.dict() with the datetimes as ISO strings
Serialize(job) ==
  [status |-> job.status, epochs |-> job.epochs,
   started_at |-> SerializeField(job.started_at),
   completed_at |-> SerializeField(job.completed_at),
   current_epoch |-> job.current_epoch,
   progress_percent |-> job.progress_percent,
   metrics |-> job.metrics, best_metrics |-> job.best_metrics,
   model_path |-> job.model_path, error_message |-> job.error_message]

\* TrainingJob(**job_data)
Deserialize(rec) ==
  [obj |-> 1, status |-> rec.status, epochs |-> rec.epochs,
   started_at |-> ParseField(rec.started_at),
   completed_at |-> ParseField(rec.completed_at),
   current_epoch |-> rec.current_epoch,
   progress_percent |-> rec.progress_percent,
   metrics |-> rec.metrics, best_metrics |-> rec.best_metrics,
   model_path |-> rec.model_path, error_message |-> rec.error_message]

\* save_jobs: the whole table, rewritten in full
save_jobs(js) ==
  [id \in JobIds |-> IF HasJob(js, id) THEN Serialize(js[id]) ELSE NoJob]

\* load_jobs without the reset of the jobs found RUNNING
load_jobs_keeps(file) ==
  [id \in JobIds |->
     IF file[id] = NoJob THEN NoJob ELSE Deserialize(file[id])]

\* load_jobs: rebuild the table; a job found RUNNING becomes FAILED
load_jobs(file) ==
  [id \in JobIds |->
     IF file[id] = NoJob THEN NoJob
     ELSE LET job == Deserialize(file[id]) IN
          IF job.status = RUNNING
          THEN [job EXCEPT !.status = FAILED, !.error_message = RestartMsg]
          ELSE job]

\* ------------------------------------------------------- manager operations
\* Each operation is a function of the current state: the components it
\* leaves behind, the value it returns (ret) and the error it caught (err).

\* Job ids are opaque strings: of the ids that no job has, the first one
\* stands for all of them
UnusedId(id) == ~HasJob(jobs, id) /\ \A i \in 1..(id - 1) : HasJob(jobs, i)

\* generate_job_id: "job_" + the first 8 hex digits of a random uuid4.
\* Any value of the ID space can come out, the id of an existing job
\* included: nothing consults self.jobs.
generate_job_id == {id \in JobIds : HasJob(jobs, id) \/ UnusedId(id)}

\* the job ids a request can name: the id of a job, or an id no job has
RequestIds == {id \in JobIds : HasJob(jobs, id) \/ UnusedId(id)}

\* create_job with a dataset path that exists, the generated id and the
\* epochs of request.config
create_job(id, epochs) ==
  LET job == NewJob(FreshObj(id), epochs)
      js  == [jobs EXCEPT ![id] = job]
  IN [jobs |-> js, active_jobs |-> active_jobs, ready |-> ready,
      jobs_file |-> save_jobs(js), ret |-> TRUE, err |-> "none"]

\* the except branch of start_job: the job, when it exists, is marked FAILED
\* with the message of the exception; nothing is saved; returns False
start_job_except(job_id, e) ==
  [jobs |-> IF HasJob(jobs, job_id)
            THEN [jobs EXCEPT ![job_id].status = FAILED,
                              ![job_id].error_message = e]
            ELSE jobs,
   active_jobs |-> active_jobs, ready |-> ready, jobs_file |-> jobs_file,
   ret |-> FALSE, err |-> e]

\* start_job with the capacity test written `>` instead of `>=`
start_job_offbyone(job_id) ==
  IF ~HasJob(jobs, job_id) THEN start_job_except(job_id, NotFound)
  ELSE IF jobs[job_id].status # PENDING
       THEN start_job_except(job_id, InvalidState)
  ELSE IF RunningCount(jobs) > MAX_CONCURRENT_JOBS
       THEN start_job_except(job_id, CapacityExceeded)
  ELSE LET js == [jobs EXCEPT ![job_id].status = RUNNING,
                              ![job_id].started_at = clock]
       IN [jobs |-> js,
           active_jobs |-> active_jobs \cup {job_id},
           ready |-> Append(ready, UnitTask(job_id, jobs[job_id].obj,
                                            jobs[job_id].epochs)),
           jobs_file |-> save_jobs(js), ret |-> TRUE, err |-> "none"]

\* start_job without the test of the concurrency limit
start_job_nolimit(job_id) ==
  IF ~HasJob(jobs, job_id) THEN start_job_except(job_id, NotFound)
  ELSE IF jobs[job_id].status # PENDING
       THEN start_job_except(job_id, InvalidState)
  ELSE LET js == [jobs EXCEPT ![job_id].status = RUNNING,
                              ![job_id].started_at = clock]
       IN [jobs |-> js,
           active_jobs |-> active_jobs \cup {job_id},
           ready |-> Append(ready, UnitTask(job_id, jobs[job_id].obj,
                                            jobs[job_id].epochs)),
           jobs_file |-> save_jobs(js), ret |-> TRUE, err |-> "none"]

start_job(job_id) ==
  IF ~HasJob(jobs, job_id) THEN start_job_except(job_id, NotFound)
  ELSE IF jobs[job_id].status # PENDING
       THEN start_job_except(job_id, InvalidState)
  ELSE IF RunningCount(jobs) >= MAX_CONCURRENT_JOBS
       THEN start_job_except(job_id, CapacityExceeded)
  ELSE LET js == [jobs EXCEPT ![job_id].status = RUNNING,
                              ![job_id].started_at = clock]
       IN [jobs |-> js,
           active_jobs |-> active_jobs \cup {job_id},
           ready |-> Append(ready, UnitTask(job_id, jobs[job_id].obj,
                                            jobs[job_id].epochs)),
           jobs_file |-> save_jobs(js), ret |-> TRUE, err |-> "none"]

\* The task registered in self.active_jobs[job_id] is the execution unit
\* created last for that id; it is still waiting (a unit that runs removes
\* the key itself).  Position in `ready`, 0 when there is none.
RegisteredTask(job_id) ==
  LET S == {i \in 1..Len(ready) :
              ready[i].kind = "unit" /\ ready[i].id = job_id}
  IN IF S = {} THEN 0 ELSE CHOOSE i \in S : \A j \in S : j <= i

\* task.cancel() on a task that has not run yet
CancelTask(q, i) ==
  IF i = 0 THEN q ELSE [q EXCEPT ![i].cancelled = TRUE]

\* cancel_job whose except branch saves the table before returning False
cancel_job_saves(job_id) ==
  IF ~HasJob(jobs, job_id)
  THEN [jobs |-> jobs, active_jobs |-> active_jobs, ready |-> ready,
        jobs_file |-> save_jobs(jobs), ret |-> FALSE, err |-> NotFound]
  ELSE LET js == [jobs EXCEPT ![job_id].status = CANCELLED,
                              ![job_id].completed_at = clock]
       IN [jobs |-> js,
           active_jobs |-> active_jobs \ {job_id},
           ready |-> IF job_id \in active_jobs
                     THEN CancelTask(ready, RegisteredTask(job_id))
                     ELSE ready,
           jobs_file |-> save_jobs(js), ret |-> TRUE, err |-> "none"]

cancel_job(job_id) ==
  IF ~HasJob(jobs, job_id)
  THEN [jobs |-> jobs, active_jobs |-> active_jobs, ready |-> ready,
        jobs_file |-> jobs_file, ret |-> FALSE, err |-> NotFound]
  ELSE LET js == [jobs EXCEPT ![job_id].status = CANCELLED,
                              ![job_id].completed_at = clock]
       IN [jobs |-> js,
           active_jobs |-> active_jobs \ {job_id},
           ready |-> IF job_id \in active_jobs
                     THEN CancelTask(ready, RegisteredTask(job_id))
                     ELSE ready,
           jobs_file |-> save_jobs(js), ret |-> TRUE, err |-> "none"]

\* job_events[job_id][:1000] in place of [-1000:]
KeepLast_first(log, n) ==
  IF Len(log) > n THEN SubSeq(log, 1, n) ELSE log

\* add_job_event: append, then keep the last MAX_EVENTS entries
KeepLast(log, n) ==
  IF Len(log) > n THEN SubSeq(log, Len(log) - n + 1, Len(log)) ELSE log
add_job_event(events, job_id, event_type, data) ==
  [events EXCEPT ![job_id] =
     KeepLast(Append(events[job_id], [event_type |-> event_type,
                                      data |-> data]), MAX_EVENTS)]

\* ------------------------------------------------------- the training runner
\* What YOLOTrainer.train hands back: the dict of _process_results on
\* success, or {"success": False, "error": str(e)} when anything raised
RunnerResults ==
  {[success |-> TRUE,  model_path |-> "best.pt", best_metrics |-> "map50",
    error |-> NoMsg],
   [success |-> FALSE, model_path |-> NoMsg, best_metrics |-> NoMsg,
    error |-> "OOM"]}

\* The runner failed with an exception whose str() is empty (a bare assert,
\* NotImplementedError(), asyncio.TimeoutError() raised under model.train)
SilentFailure ==
  [success |-> FALSE, model_path |-> NoMsg, best_metrics |-> NoMsg,
   error |-> ""]

\* on_train_epoch_end reporting trainer.epoch + 2
ScheduledCallbacks_late(t, k) ==
  [e \in 1..k |-> CallbackTask(t.id, t.obj, e + 1, t.total)]

\* the callbacks on_train_epoch_end schedules with asyncio.create_task while
\* model.train runs: one per finished epoch 1..k, in epoch order
ScheduledCallbacks(t, k) ==
  [e \in 1..k |-> CallbackTask(t.id, t.obj, e, t.total)]

\* the job object a task closed over is still the one in the table
Attached(t) == HasJob(jobs, t.id) /\ jobs[t.id].obj = t.obj

\* _run_training whose failure branch does not record the runner's error
run_training_noerror(t, k, result) ==
  LET done == IF result.success
              THEN [jobs[t.id] EXCEPT !.status = COMPLETED,
                                      !.model_path = result.model_path,
                                      !.best_metrics = result.best_metrics,
                                      !.completed_at = clock]
              ELSE [jobs[t.id] EXCEPT !.status = FAILED,
                                      !.completed_at = clock]
      js == IF Attached(t) THEN [jobs EXCEPT ![t.id] = done] ELSE jobs
      ev == IF result.success
            THEN add_job_event(job_events, t.id, "completed",
                               result.model_path)
            ELSE add_job_event(job_events, t.id, "error", result.error)
  IN [jobs |-> js, job_events |-> ev,
      active_jobs |-> active_jobs \ {t.id},
      ready |-> Tail(ready) \o ScheduledCallbacks(t, k),
      jobs_file |-> save_jobs(js)]

\* _run_training whose cleanup stands at the end of the success branch and
\* not in a finally block
run_training_nofinally(t, k, result) ==
  LET done == IF result.success
              THEN [jobs[t.id] EXCEPT !.status = COMPLETED,
                                      !.model_path = result.model_path,
                                      !.best_metrics = result.best_metrics,
                                      !.completed_at = clock]
              ELSE [jobs[t.id] EXCEPT !.status = FAILED,
                                      !.error_message = result.error]
      js == IF Attached(t) THEN [jobs EXCEPT ![t.id] = done] ELSE jobs
      ev == IF result.success
            THEN add_job_event(job_events, t.id, "completed",
                               result.model_path)
            ELSE add_job_event(job_events, t.id, "error", result.error)
  IN [jobs |-> js, job_events |-> ev,
      active_jobs |-> IF result.success THEN active_jobs \ {t.id}
                      ELSE active_jobs,
      ready |-> Tail(ready) \o ScheduledCallbacks(t, k),
      jobs_file |-> IF result.success THEN save_jobs(js) ELSE jobs_file]

\* _run_training from the first statement to the end of its finally block,
\* for the runner result `result` after k epoch callbacks were scheduled
run_training(t, k, result) ==
  LET done == IF result.success
              THEN [jobs[t.id] EXCEPT !.status = COMPLETED,
                                      !.model_path = result.model_path,
                                      !.best_metrics = result.best_metrics,
                                      !.completed_at = clock]
              ELSE [jobs[t.id] EXCEPT !.status = FAILED,
                                      !.error_message = result.error,
                                      !.completed_at = clock]
      js == IF Attached(t) THEN [jobs EXCEPT ![t.id] = done] ELSE jobs
      ev == IF result.success
            THEN add_job_event(job_events, t.id, "completed",
                               result.model_path)
            ELSE add_job_event(job_events, t.id, "error", result.error)
  IN [jobs |-> js, job_events |-> ev,
      active_jobs |-> active_jobs \ {t.id},
      ready |-> Tail(ready) \o ScheduledCallbacks(t, k),
      jobs_file |-> save_jobs(js)]

\* progress_callback(metrics) of _run_training
progress_callback(t) ==
  LET m  == [epoch |-> t.epoch, total_epochs |-> t.total]
      js == IF Attached(t)
            THEN [jobs EXCEPT ![t.id].metrics = m,
                              ![t.id].current_epoch = m.epoch,
                              ![t.id].progress_percent =
                                 Percent(m.epoch, m.total_epochs)]
            ELSE jobs
  IN [jobs |-> js,
      job_events |-> add_job_event(job_events, t.id, "metrics", m),
      active_jobs |-> active_jobs, ready |-> Tail(ready),
      jobs_file |-> save_jobs(js)]

\* ---------------------------------------------------------- the broadcast hub
\* The hub operations are functions of a hub state h: a record of the
\* three dictionaries of SSEManager, the queues of the streams and the
\* publishers that wait in queue.put.

\* the connection types of SSEManager.connections
Topics == {"jobs", "system", "training"}

\* job_id = None, and the job ids a caller can name
NoKey == 0
HubKeys == 1..NumKeys

EmptyMap == [x \in {} |-> x]

\* d[k] = v on a Python dict
Put(d, k, v) == [x \in DOMAIN d \cup {k} |-> IF x = k THEN v ELSE d[x]]

\* SSEManager(): three empty topic sets, no job set, nothing cached
FreshHub ==
  [connections |-> [t \in Topics |-> {}], job_connections |-> EmptyMap,
   last_state |-> EmptyMap, mailbox |-> <<>>, putters |-> <<>>]

\* The message dict a broadcast_* method builds.  ts is its timestamp;
\* ser tells whether json.dumps accepts the caller's payload.
Message(type, job, ts, ser) ==
  [type |-> type, job |-> job, ts |-> ts, ser |-> ser]

\* the topic each kind of message is broadcast to
TopicOf(type) ==
  CASE type = "job_update"       -> "jobs"
    [] type = "training_metrics" -> "training"
    [] OTHER                     -> "system"

\* Iterating over set.copy(): the queues of S in the order `ord`.  The
\* order in which a Python set yields its members is not fixed by the
\* program, so every publish may meet any order.
Orders ==
  {o \in [1..NumQueues -> 1..NumQueues] :
     \A i, j \in 1..NumQueues : o[i] = o[j] => i = j}
Snapshot(S, ord) == SelectSeq(ord, LAMBDA q : q \in S)

\* json.dumps of the cached payload of a topic succeeds
CacheSerializable(h, topic) ==
  IF topic = "jobs"
  THEN \A k \in DOMAIN h.last_state[topic] : h.last_state[topic][k].ser
  ELSE h.last_state[topic].ser

\* add_connection: register the queue, then enqueue the cached state of
\* the topic when there is one (a failure of that enqueue is only logged)
add_connection(h, topic, job, q) ==
  LET jc == IF job = NoKey THEN h.job_connections
            ELSE Put(h.job_connections, job,
                     (IF job \in DOMAIN h.job_connections
                      THEN h.job_connections[job] ELSE {}) \cup {q})
      first == IF topic \in DOMAIN h.last_state
                  /\ CacheSerializable(h, topic)
               THEN <<Message(topic \o "_state", NoKey, NoTime, TRUE)>>
               ELSE <<>>
  IN [h EXCEPT !.connections[topic] = @ \cup {q},
               !.job_connections = jc,
               !.mailbox = Put(h.mailbox, q, first)]

\* create_event_stream up to its first wait: a new Queue(maxsize=100),
\* add_connection, then the `connected` frame
create_event_stream(h, topic, job, q) ==
  LET h1 == add_connection(h, topic, job, q)
  IN [h1 EXCEPT !.mailbox[q] =
        Append(@, Message("connected", job, NoTime, TRUE))]

\* remove_connection that forgets the per-job set
remove_connection_topiconly(h, topic, job, q) ==
  [h EXCEPT !.connections[topic] = @ \ {q}]

\* remove_connection: discard the queue from the set of its topic and from
\* the set of its job, and delete the job's entry when its set became empty
remove_connection(h, topic, job, q) ==
  LET h1 == [h EXCEPT !.connections[topic] = @ \ {q}]
      jc == h1.job_connections
  IN IF job # NoKey /\ job \in DOMAIN jc
     THEN IF jc[job] \ {q} = {}
          THEN [h1 EXCEPT !.job_connections =
                            [k \in DOMAIN jc \ {job} |-> jc[k]]]
          ELSE [h1 EXCEPT !.job_connections[job] = @ \ {q}]
     ELSE h1

\* A publisher: the coroutine of one broadcast_* call.  phase tells which
\* loop it is in (_broadcast_to_type or _broadcast_to_job), todo the queues
\* of the copied set it still has to serve, dead its dead_connections.
Publisher(h, msg, ord) ==
  [msg |-> msg, phase |-> "type", ord |-> ord, dead |-> {}, woken |-> FALSE,
   todo |-> Snapshot(h.connections[TopicOf(msg.type)], ord)]

\* the tail of broadcast_job_update and broadcast_system_update: the cache
finish_broadcast(h, p) ==
  CASE p.msg.type = "job_update" ->
         [h EXCEPT !.last_state =
            Put(@, "jobs",
                Put(IF "jobs" \in DOMAIN h.last_state
                    THEN h.last_state["jobs"] ELSE EmptyMap,
                    p.msg.job, p.msg))]
    [] p.msg.type = "system_update" ->
         [h EXCEPT !.last_state = Put(@, "system", p.msg)]
    [] OTHER -> h

\* Run publisher p from where it stands until it returns or has to wait.
\* _send_to_queue: json.dumps raises for a payload it cannot encode and the
\* loop around it records the queue as dead; `await queue.put(...)` on a
\* full queue suspends the publisher until the queue has room (put never
\* raises QueueFull); otherwise the frame is enqueued.
RECURSIVE broadcast(_, _)
broadcast(h, p) ==
  IF p.todo # <<>>
  THEN LET q == Head(p.todo) IN
       IF ~p.msg.ser
       THEN broadcast(h, [p EXCEPT !.todo = Tail(@), !.dead = @ \cup {q}])
       ELSE IF Len(h.mailbox[q]) >= QUEUE_MAXSIZE
       THEN [h EXCEPT !.putters = Append(@, [p EXCEPT !.woken = FALSE])]
       ELSE broadcast([h EXCEPT !.mailbox[q] = Append(@, p.msg)],
                      [p EXCEPT !.todo = Tail(@)])
  ELSE IF p.phase = "type"
  THEN LET h1 == [h EXCEPT !.connections[TopicOf(p.msg.type)] = @ \ p.dead]
       IN IF p.msg.job \in DOMAIN h1.job_connections
          THEN broadcast(h1, [p EXCEPT !.phase = "job", !.dead = {},
                                !.todo = Snapshot(
                                   h1.job_connections[p.msg.job], p.ord)])
          ELSE finish_broadcast(h1, p)
  ELSE finish_broadcast(
         [h EXCEPT !.job_connections[p.msg.job] = @ \ p.dead], p)

\* queue.get() on a queue with a frame: the frame leaves the queue and the
\* first publisher waiting in put on this queue is woken
Waiting(h, q) ==
  {i \in 1..Len(h.putters) :
     ~h.putters[i].woken /\ Head(h.putters[i].todo) = q}
queue_get(h, q) ==
  LET W == Waiting(h, q)
      h1 == [h EXCEPT !.mailbox[q] = Tail(@)]
  IN IF W = {} THEN h1
     ELSE [h1 EXCEPT !.putters[CHOOSE i \in W : \A j \in W : i <= j].woken
                       = TRUE]

\* the frame the loop of create_event_stream yields when wait_for timed out
Heartbeat == Message("heartbeat", NoKey, NoTime, TRUE)

\* a timeout that ends the stream: the generator leaves through `finally`
on_timeout_closes(h, s, q) ==
  [hub |-> remove_connection(h, s.topic, s.job, q), open |-> FALSE,
   frame |-> Heartbeat]

\* The except asyncio.TimeoutError branch of the loop: a heartbeat frame is
\* yielded and the loop goes round again; the hub is not touched
on_timeout(h, s, q) == [hub |-> h, open |-> TRUE, frame |-> Heartbeat]

\* a sequence without its i-th element
Remove(seq, i) == SubSeq(seq, 1, i - 1) \o SubSeq(seq, i + 1, Len(seq))

\* The hub after one stream ("training", job 1) was opened and then left
\* unread while one caller broadcast n training_metrics messages for job 1,
\* each after the broadcast before it had returned
RECURSIVE StalledHub(_)
StalledHub(n) ==
  IF n = 0 THEN create_event_stream(FreshHub, "training", 1, 1)
  ELSE LET h == StalledHub(n - 1)
           msg == Message("training_metrics", 1, n - 1, TRUE)
       IN IF h.putters # <<>> THEN h
          ELSE broadcast(h, Publisher(h, msg, [i \in 1..NumQueues |-> i]))

\* the broadcasts after which that stream's queue is one frame short of
\* full: it receives every message twice, once per set it is in
StalledBroadcasts == (QUEUE_MAXSIZE - 1) \div 2

\* ------------------------------------------------------------------- actions
Answer(op, id, ret, err, http) ==
  [op |-> op, id |-> id, pre |-> IF id \in JobIds THEN jobs[id].status
                                 ELSE "absent",
   ret |-> ret, err |-> err, http |-> http]

\* the hub state h in the hub's variables, now and after the step
SetHub(h) ==
  /\ connections = h.connections
  /\ job_connections = h.job_connections
  /\ last_state = h.last_state
  /\ mailbox = h.mailbox
  /\ putters = h.putters
ApplyHub(h) ==
  /\ connections' = h.connections
  /\ job_connections' = h.job_connections
  /\ last_state' = h.last_state
  /\ mailbox' = h.mailbox
  /\ putters' = h.putters
Hub ==
  [connections |-> connections, job_connections |-> job_connections,
   last_state |-> last_state, mailbox |-> mailbox, putters |-> putters]

Apply(r) ==
  /\ jobs' = r.jobs
  /\ active_jobs' = r.active_jobs
  /\ ready' = r.ready
  /\ jobs_file' = r.jobs_file

\* What jobs.json can hold when the process starts: nothing (no file), or
\* the jobs an earlier process created and never started, one more than
\* the concurrency limit
StoredFiles ==
  {[id \in JobIds |-> NoJob],
   [id \in JobIds |-> IF id <= MAX_CONCURRENT_JOBS + 1
                      THEN Serialize(NewJob(1, MaxEpochs)) ELSE NoJob]}

\* JobManager() followed by initialize(), which loads jobs.json
Init ==
  /\ jobs_file \in StoredFiles
  /\ jobs = load_jobs(jobs_file)
  /\ active_jobs = {}
  /\ job_events = [id \in JobIds |-> <<>>]
  /\ ready = <<>>
  /\ clock = 0
  /\ budget = MaxEvents
  /\ last = [op |-> "init", id |-> 0, pre |-> "absent", ret |-> TRUE,
             err |-> "none", http |-> 0]
  /\ jobs_router = FreshManager
  /\ SetHub(FreshHub)
  /\ streams = <<>> /\ delivered = <<>> /\ published = <<>>

\* POST /jobs/ : create_job raises ValueError when the dataset path does
\* not exist and the endpoint answers 500; otherwise the job is returned
HttpCreateJob ==
  /\ budget > 0
  /\ budget' = budget - 1
  /\ \E exists \in BOOLEAN, id \in generate_job_id, epochs \in {MaxEpochs} :
    IF exists
    THEN /\ Apply(create_job(id, epochs))
         /\ last' = Answer("create", id, TRUE, "none", 200)
         /\ UNCHANGED <<job_events, clock>>
    ELSE /\ last' = Answer("create", 0, FALSE, "InvalidInput", 500)
         /\ UNCHANGED <<jobs, active_jobs, job_events, jobs_file, ready,
                        clock>>
  /\ UNCHANGED <<hubvars, jobs_router>>

\* POST /jobs/{job_id}/start : awaits start_job, drops its return value and
\* answers {"message": "Job iniciado"}; 500 only if start_job raised
HttpStartJob ==
  /\ budget > 0
  /\ budget' = budget - 1
  /\ \E job_id \in RequestIds :
    LET r == start_job(job_id) IN
    /\ Apply(r)
    /\ last' = Answer("start", job_id, r.ret, r.err, 200)
    /\ clock' = IF r.ret THEN clock + 1 ELSE clock
    /\ UNCHANGED <<job_events>>
  /\ UNCHANGED <<hubvars, jobs_router>>

\* POST /jobs/{job_id}/cancel : the same shape around cancel_job
HttpCancelJob ==
  /\ budget > 0
  /\ budget' = budget - 1
  /\ \E job_id \in RequestIds :
    LET r == cancel_job(job_id) IN
    /\ Apply(r)
    /\ last' = Answer("cancel", job_id, r.ret, r.err, 200)
    /\ clock' = IF r.ret THEN clock + 1 ELSE clock
    /\ UNCHANGED <<job_events>>
  /\ UNCHANGED <<hubvars, jobs_router>>

\* The event loop runs the execution unit at the head of the ready queue,
\* and the runner hands back one of `results`
RunUnitWith(results) ==
  /\ ready # <<>>
  /\ LET t == Head(ready) IN
     /\ t.kind = "unit" /\ ~t.cancelled
     /\ \E k \in 0..t.total, result \in results :
          LET r == run_training(t, k, result) IN
          /\ Apply(r)
          /\ job_events' = r.job_events
          /\ last' = Answer("unit", t.id, result.success, "none", 0)
  /\ clock' = clock + 1 /\ UNCHANGED <<budget>>
  /\ UNCHANGED <<hubvars, jobs_router>>

RunUnit == RunUnitWith(RunnerResults)

\* The event loop runs the progress callback at the head of the ready queue
RunCallback ==
  /\ ready # <<>>
  /\ LET t == Head(ready) IN
     /\ t.kind = "callback"
     /\ LET r == progress_callback(t) IN
        /\ Apply(r)
        /\ job_events' = r.job_events
        /\ last' = Answer("callback", t.id, TRUE, "none", 0)
  /\ UNCHANGED <<clock, budget>>
  /\ UNCHANGED <<hubvars, jobs_router>>

\* The event loop reaches a task that was cancelled before its first step:
\* CancelledError is thrown into the unstarted coroutine, whose body (try,
\* except and finally included) never executes
DropCancelled ==
  /\ ready # <<>>
  /\ Head(ready).cancelled
  /\ ready' = Tail(ready)
  /\ last' = Answer("dropped", Head(ready).id, TRUE, "none", 0)
  /\ UNCHANGED <<jobs, active_jobs, job_events, jobs_file, clock, budget>>
  /\ UNCHANGED <<hubvars, jobs_router>>

\* The process ends and a new one starts: JobManager() then initialize().
\* A graceful shutdown runs cleanup (cancel the tasks, save_jobs) first.
Restart ==
  /\ budget > 0
  /\ budget' = budget - 1
  /\ \E graceful \in BOOLEAN :
    LET file == IF graceful THEN save_jobs(jobs) ELSE jobs_file IN
    /\ jobs_file' = file
    /\ jobs' = load_jobs(file)
    /\ active_jobs' = {}
    /\ job_events' = [id \in JobIds |-> <<>>]
    /\ ready' = <<>>
    /\ last' = Answer("restart", 0, TRUE, "none", 0)
    /\ UNCHANGED clock
  /\ UNCHANGED <<hubvars, jobs_router>>

Next ==
  \/ HttpCreateJob
  \/ HttpStartJob
  \/ HttpCancelJob
  \/ RunUnit
  \/ RunCallback
  \/ DropCancelled
  \/ Restart

Spec == Init /\ [][Next]_vars

\* ------------------------------------- the manager behind the whole HTTP API
\* The requests of Spec, the pause and resume endpoints of the training
\* router, and a runner that can also fail without a message.

\* POST /training/{job_id}/pause
pause_training(job_id) ==
  IF ~HasJob(jobs, job_id) THEN [http |-> 404, err |-> NotFound]
  ELSE IF jobs[job_id].status \notin {"running", "training"}
       THEN [http |-> 400, err |-> NotRunning]
  ELSE [http |-> 501, err |-> NotImplemented]

\* POST /training/{job_id}/resume
resume_training(job_id) ==
  IF ~HasJob(jobs, job_id) THEN [http |-> 404, err |-> NotFound]
  ELSE IF jobs[job_id].status # "paused"
       THEN [http |-> 400, err |-> NotPaused]
  ELSE [http |-> 501, err |-> NotImplemented]

HttpPauseJob ==
  /\ budget > 0
  /\ budget' = budget - 1
  /\ \E job_id \in RequestIds :
    LET r == pause_training(job_id) IN
    last' = Answer("pause", job_id, FALSE, r.err, r.http)
  /\ UNCHANGED <<jobs, active_jobs, job_events, jobs_file, ready, clock>>
  /\ UNCHANGED <<hubvars, jobs_router>>

HttpResumeJob ==
  /\ budget > 0
  /\ budget' = budget - 1
  /\ \E job_id \in RequestIds :
    LET r == resume_training(job_id) IN
    last' = Answer("resume", job_id, FALSE, r.err, r.http)
  /\ UNCHANGED <<jobs, active_jobs, job_events, jobs_file, ready, clock>>
  /\ UNCHANGED <<hubvars, jobs_router>>

RunUnitAny == RunUnitWith(RunnerResults \cup {SilentFailure})

ApiNext ==
  \/ HttpCreateJob
  \/ HttpStartJob
  \/ HttpCancelJob
  \/ HttpPauseJob
  \/ HttpResumeJob
  \/ RunUnitAny
  \/ RunCallback
  \/ DropCancelled
  \/ Restart

ApiSpec == Init /\ [][ApiNext]_vars

\* ------------------------------------------------- the event log on its own
\* add_job_event called over and over for one job of a fresh manager.  The
\* payload of an event is the reading of the clock at the call, so that
\* every appended event is distinct and carries its place in the append
\* order.
LogAppend ==
  /\ clock < MaxAppends
  /\ \E id \in JobIds :
       /\ \A other \in JobIds \ {id} : job_events[other] = <<>>
       /\ job_events' = add_job_event(job_events, id, "metrics", clock)
  /\ clock' = clock + 1
  /\ UNCHANGED <<jobs, active_jobs, jobs_file, ready, budget, last>>
  /\ UNCHANGED <<hubvars, jobs_router>>

LogNext == LogAppend

LogSpec == Init /\ [][LogNext]_vars

\* ------------------------------------------------------- the hub on its own
\* The hub and its streams, driven by clients that open streams and read
\* them and by callers of the broadcast_* methods.

\* what a stream can be opened for: the routes /jobs/{id}/events,
\* /system/events and /training/{id}/events
StreamKinds ==
  {<<"system", NoKey>>} \cup ({"jobs", "training"} \X HubKeys)

\* what can be published: broadcast_job_update and
\* broadcast_training_metrics for a job, broadcast_system_update
MessageKinds ==
  {<<"system_update", NoKey>>}
    \cup ({"job_update", "training_metrics"} \X HubKeys)

\* A hub that was just constructed, or one that has served a single
\* stream whose client stopped reading StalledBroadcasts broadcasts ago
HubInit ==
  /\ jobs = [id \in JobIds |-> NoJob]
  /\ active_jobs = {}
  /\ job_events = [id \in JobIds |-> <<>>]
  /\ jobs_file = [id \in JobIds |-> NoJob]
  /\ ready = <<>>
  /\ last = [op |-> "init", id |-> 0, pre |-> "absent", ret |-> TRUE,
             err |-> "none", http |-> 0]
  /\ jobs_router = FreshManager
  /\ budget = MaxHubOps
  /\ \/ /\ SetHub(FreshHub)
        /\ streams = <<>> /\ delivered = <<>> /\ published = <<>>
        /\ clock = 0
     \/ /\ SetHub(StalledHub(StalledBroadcasts))
        /\ streams = <<[topic |-> "training", job |-> 1, since |-> 0,
                         open |-> TRUE]>>
        /\ delivered = << <<>> >>
        /\ published = [i \in 1..StalledBroadcasts |->
                          Message("training_metrics", 1, i - 1, TRUE)]
        /\ clock = StalledBroadcasts

\* A client opens a stream: create_event_stream runs to its first wait
HubSubscribe ==
  /\ budget > 0 /\ budget' = budget - 1
  /\ Len(streams) < NumQueues
  /\ \E kind \in StreamKinds :
       LET q == Len(streams) + 1 IN
       /\ ApplyHub(create_event_stream(Hub, kind[1], kind[2], q))
       /\ streams' = Append(streams, [topic |-> kind[1], job |-> kind[2],
                                      since |-> Len(published),
                                      open |-> TRUE])
       /\ delivered' = Append(delivered, <<>>)
  /\ UNCHANGED <<published, clock>>
  /\ UNCHANGED <<jobs, active_jobs, job_events, jobs_file, ready, last,
                 jobs_router>>

\* A caller awaits a broadcast_* method: the message is built with the
\* current time and the publisher runs until it returns or has to wait
HubPublish ==
  /\ budget > 0 /\ budget' = budget - 1
  /\ \E kind \in MessageKinds, ser \in BOOLEAN, ord \in Orders :
       LET msg == Message(kind[1], kind[2], clock, ser) IN
       /\ ApplyHub(broadcast(Hub, Publisher(Hub, msg, ord)))
       /\ published' = Append(published, msg)
  /\ clock' = clock + 1
  /\ UNCHANGED <<streams, delivered>>
  /\ UNCHANGED <<jobs, active_jobs, job_events, jobs_file, ready, last,
                 jobs_router>>

\* The client of stream q takes the next frame: queue.get() returns it and
\* the stream yields it
HubDeliver ==
  /\ budget > 0 /\ budget' = budget - 1
  /\ \E q \in 1..Len(streams) :
       /\ streams[q].open /\ mailbox[q] # <<>>
       /\ ApplyHub(queue_get(Hub, q))
       /\ delivered' = [delivered EXCEPT ![q] = Append(@, Head(mailbox[q]))]
  /\ UNCHANGED <<streams, published, clock>>
  /\ UNCHANGED <<jobs, active_jobs, job_events, jobs_file, ready, last,
                 jobs_router>>

\* A woken publisher runs again: the loop of queue.put tests the queue once
\* more, and the publisher goes on if there is room or waits again
HubResume ==
  /\ \E i \in 1..Len(putters) :
       /\ putters[i].woken
       /\ ApplyHub(broadcast([Hub EXCEPT !.putters = Remove(@, i)],
                             putters[i]))
  /\ UNCHANGED <<streams, delivered, published, clock, budget>>
  /\ UNCHANGED <<jobs, active_jobs, job_events, jobs_file, ready, last,
                 jobs_router>>

HubNext ==
  \/ HubSubscribe
  \/ HubPublish
  \/ HubDeliver
  \/ HubResume

HubSpec == HubInit /\ [][HubNext]_vars

\* ------------------------------------------------- a disk that can fail
\* What the disk does with one write of jobs.json: the write goes through,
\* open() fails and the file stays as it was, or open() truncates the file
\* and json.dump fails on the way
DiskOutcomes == {"ok", "unopened", "partial"}

\* jobs.json after a write that broke off: load_jobs logs the JSON error
\* and keeps the empty table, as for a file that is not there
BrokenFile == [id \in JobIds |-> NoJob]

\* save_jobs that lets the error of the write reach its caller
write_jobs_raises(js, file, disk) ==
  [file |-> CASE disk = "ok"       -> save_jobs(js)
              [] disk = "unopened" -> file
              [] OTHER             -> BrokenFile,
   raised |-> disk # "ok"]

\* save_jobs on the disk: the file it leaves and whether it raised.  The
\* whole body is inside try / except Exception, which only logs.
write_jobs(js, file, disk) ==
  [file |-> CASE disk = "ok"       -> save_jobs(js)
              [] disk = "unopened" -> file
              [] OTHER             -> BrokenFile,
   raised |-> FALSE]

\* create_job on the disk: an exception of the save would be raised again
\* by the except branch of create_job
create_job_on(id, epochs, disk) ==
  LET r == create_job(id, epochs)
      w == write_jobs(r.jobs, jobs_file, disk)
  IN IF w.raised
     THEN [r EXCEPT !.jobs_file = w.file, !.ret = FALSE, !.err = "OSError"]
     ELSE [r EXCEPT !.jobs_file = w.file]

\* start_job on the disk: an exception of the save would reach the except
\* branch, which marks the job FAILED and returns False
start_job_on(job_id, disk) ==
  LET r == start_job(job_id)
      w == write_jobs(r.jobs, jobs_file, disk)
  IN IF ~r.ret THEN r
     ELSE IF w.raised
     THEN [r EXCEPT !.jobs[job_id].status = FAILED,
                    !.jobs[job_id].error_message = "OSError",
                    !.jobs_file = w.file, !.ret = FALSE, !.err = "OSError"]
     ELSE [r EXCEPT !.jobs_file = w.file]

\* cancel_job on the disk: an exception of the save would reach the except
\* branch, which returns False
cancel_job_on(job_id, disk) ==
  LET r == cancel_job(job_id)
      w == write_jobs(r.jobs, jobs_file, disk)
  IN IF ~r.ret THEN r
     ELSE IF w.raised
     THEN [r EXCEPT !.jobs_file = w.file, !.ret = FALSE, !.err = "OSError"]
     ELSE [r EXCEPT !.jobs_file = w.file]

DiskInit ==
  /\ jobs_file \in StoredFiles
  /\ jobs = load_jobs(jobs_file)
  /\ active_jobs = {}
  /\ job_events = [id \in JobIds |-> <<>>]
  /\ ready = <<>>
  /\ clock = 0
  /\ budget = MaxDiskOps
  /\ last = [op |-> "init", id |-> 0, pre |-> "absent", ret |-> TRUE,
             err |-> "none", http |-> 0]
  /\ jobs_router = FreshManager
  /\ SetHub(FreshHub)
  /\ streams = <<>> /\ delivered = <<>> /\ published = <<>>

\* POST /jobs/ with a dataset path that exists
DiskCreateJob ==
  /\ budget > 0
  /\ budget' = budget - 1
  /\ \E id \in generate_job_id, epochs \in {MaxEpochs},
        disk \in DiskOutcomes :
       LET r == create_job_on(id, epochs, disk) IN
       /\ Apply(r)
       /\ last' = Answer("create", id, r.ret, r.err,
                         IF r.ret THEN 200 ELSE 500)
  /\ UNCHANGED <<job_events, clock>>
  /\ UNCHANGED <<hubvars, jobs_router>>

\* POST /jobs/{job_id}/start
DiskStartJob ==
  /\ budget > 0
  /\ budget' = budget - 1
  /\ \E job_id \in RequestIds, disk \in DiskOutcomes :
       LET r == start_job_on(job_id, disk) IN
       /\ Apply(r)
       /\ last' = Answer("start", job_id, r.ret, r.err, 200)
       /\ clock' = IF r.ret THEN clock + 1 ELSE clock
  /\ UNCHANGED <<job_events>>
  /\ UNCHANGED <<hubvars, jobs_router>>

\* POST /jobs/{job_id}/cancel
DiskCancelJob ==
  /\ budget > 0
  /\ budget' = budget - 1
  /\ \E job_id \in RequestIds, disk \in DiskOutcomes :
       LET r == cancel_job_on(job_id, disk) IN
       /\ Apply(r)
       /\ last' = Answer("cancel", job_id, r.ret, r.err, 200)
       /\ clock' = IF r.ret THEN clock + 1 ELSE clock
  /\ UNCHANGED <<job_events>>
  /\ UNCHANGED <<hubvars, jobs_router>>

DiskNext ==
  \/ DiskCreateJob
  \/ DiskStartJob
  \/ DiskCancelJob
  \/ RunUnit
  \/ RunCallback
  \/ DropCancelled
  \/ Restart

DiskSpec == DiskInit /\ [][DiskNext]_vars

\* ------------------------------------------------- the two routers
\* routers/training.py imports the JobManager of app.core.globals, the one
\* main.py initializes; routers/jobs.py constructs a JobManager of its own,
\* which nothing initializes.  Both write DATA_DIR/jobs.json and both
\* create their tasks on the one event loop.  Here the variables jobs and
\* active_jobs are the manager of globals.py and jobs_router is the one of
\* routers/jobs.py; the behaviours are the requests that arrive before the
\* event loop runs the first unit, with ids that do not collide.

\* the manager of app.core.globals as a record
GlobalManager == [jobs |-> jobs, active_jobs |-> active_jobs]

\* the ids generate_job_id draws here: an id no job of either manager has
RouterIds ==
  {id \in JobIds :
     /\ ~HasJob(jobs, id) /\ ~HasJob(jobs_router.jobs, id)
     /\ \A i \in 1..(id - 1) :
          HasJob(jobs, i) \/ HasJob(jobs_router.jobs, i)}

\* create_job of the manager m
create_job_in(m, id, epochs) ==
  [m EXCEPT !.jobs[id] = NewJob(1, epochs)]

\* start_job of the manager m at time now: the manager it leaves and the
\* value it returns
start_job_in(m, job_id, now) ==
  LET failed(e) ==
        [m |-> IF HasJob(m.jobs, job_id)
               THEN [m EXCEPT !.jobs[job_id].status = FAILED,
                              !.jobs[job_id].error_message = e]
               ELSE m,
         ret |-> FALSE, err |-> e]
  IN IF ~HasJob(m.jobs, job_id) THEN failed(NotFound)
     ELSE IF m.jobs[job_id].status # PENDING THEN failed(InvalidState)
     ELSE IF RunningCount(m.jobs) >= MAX_CONCURRENT_JOBS
          THEN failed(CapacityExceeded)
     ELSE [m |-> [m EXCEPT !.jobs[job_id].status = RUNNING,
                           !.jobs[job_id].started_at = now,
                           !.active_jobs = @ \cup {job_id}],
           ret |-> TRUE, err |-> "none"]

\* get_job of the manager m
get_job_in(m, job_id) == m.jobs[job_id]

RouterInit ==
  /\ jobs_file \in StoredFiles
  /\ jobs = load_jobs(jobs_file)
  /\ active_jobs = {}
  /\ job_events = [id \in JobIds |-> <<>>]
  /\ ready = <<>>
  /\ clock = 0
  /\ budget = MaxRequests
  /\ last = [op |-> "init", id |-> 0, pre |-> "absent", ret |-> TRUE,
             err |-> "none", http |-> 0]
  /\ jobs_router = FreshManager
  /\ SetHub(FreshHub)
  /\ streams = <<>> /\ delivered = <<>> /\ published = <<>>

\* POST /training/start : create_job on the global manager, the job is the
\* answer, and start_job runs as the background task of the request
PostTrainingStart ==
  /\ budget > 0
  /\ budget' = budget - 1
  /\ \E id \in RouterIds, epochs \in {MaxEpochs} :
       LET created == create_job_in(GlobalManager, id, epochs)
           r == start_job_in(created, id, clock)
       IN /\ jobs' = r.m.jobs
          /\ active_jobs' = r.m.active_jobs
          /\ ready' = IF r.ret THEN Append(ready, UnitTask(id, 1, epochs))
                      ELSE ready
          /\ jobs_file' = IF r.ret THEN save_jobs(r.m.jobs)
                          ELSE save_jobs(created.jobs)
          /\ clock' = IF r.ret THEN clock + 1 ELSE clock
          /\ last' = [op |-> "training_start", id |-> id, pre |-> "absent",
                      ret |-> r.ret, err |-> r.err, http |-> 200]
  /\ UNCHANGED <<job_events, jobs_router>>
  /\ UNCHANGED hubvars

\* POST /jobs/ : create_job on the manager of routers/jobs.py
PostJobs ==
  /\ budget > 0
  /\ budget' = budget - 1
  /\ \E id \in RouterIds, epochs \in {MaxEpochs} :
       LET created == create_job_in(jobs_router, id, epochs) IN
       /\ jobs_router' = created
       /\ jobs_file' = save_jobs(created.jobs)
       /\ last' = [op |-> "jobs_create", id |-> id, pre |-> "absent",
                   ret |-> TRUE, err |-> "none", http |-> 200]
  /\ UNCHANGED <<jobs, active_jobs, job_events, ready, clock>>
  /\ UNCHANGED hubvars

\* POST /jobs/{job_id}/start : start_job on the manager of routers/jobs.py
PostJobsStart ==
  /\ budget > 0
  /\ budget' = budget - 1
  /\ \E job_id \in JobIds :
       /\ HasJob(jobs, job_id) \/ HasJob(jobs_router.jobs, job_id)
       /\ LET r == start_job_in(jobs_router, job_id, clock) IN
          /\ jobs_router' = r.m
          /\ ready' = IF r.ret
                      THEN Append(ready,
                                  UnitTask(job_id, 1,
                                           jobs_router.jobs[job_id].epochs))
                      ELSE ready
          /\ jobs_file' = IF r.ret THEN save_jobs(r.m.jobs) ELSE jobs_file
          /\ clock' = IF r.ret THEN clock + 1 ELSE clock
          /\ last' = [op |-> "jobs_start", id |-> job_id,
                      pre |-> get_job_in(jobs_router, job_id).status,
                      ret |-> r.ret, err |-> r.err, http |-> 200]
  /\ UNCHANGED <<jobs, active_jobs, job_events>>
  /\ UNCHANGED hubvars

RouterNext ==
  \/ PostTrainingStart
  \/ PostJobs
  \/ PostJobsStart

RouterSpec == RouterInit /\ [][RouterNext]_vars

\* ------------------------------------------------- the fair event loop
\* asyncio runs every task of its ready queue: the step of the task at the
\* head of the queue is taken whenever it stays enabled
LiveSpec ==
  /\ Init /\ [][Next]_vars
  /\ WF_vars(RunUnit) /\ WF_vars(RunCallback) /\ WF_vars(DropCancelled)

\* ------------------------------------------------- one more request
\* The manager and its endpoints in behaviours of MaxRequests requests:
\* the limit of two concurrent jobs meets a third start only there.
LongInit ==
  /\ jobs_file \in StoredFiles
  /\ jobs = load_jobs(jobs_file)
  /\ active_jobs = {}
  /\ job_events = [id \in JobIds |-> <<>>]
  /\ ready = <<>>
  /\ clock = 0
  /\ budget = MaxRequests
  /\ last = [op |-> "init", id |-> 0, pre |-> "absent", ret |-> TRUE,
             err |-> "none", http |-> 0]
  /\ jobs_router = FreshManager
  /\ SetHub(FreshHub)
  /\ streams = <<>> /\ delivered = <<>> /\ published = <<>>

LongSpec == LongInit /\ [][Next]_vars

\* ------------------------------------------------- the life of the streams
\* Streams that are opened, read, left idle and closed by their clients
\* while callers publish, on a hub that was just constructed.

\* wait_for(queue.get(), timeout=30.0) timed out on stream q: nothing was
\* enqueued for 30 seconds
HubTimeout ==
  /\ budget > 0 /\ budget' = budget - 1
  /\ \E q \in 1..Len(streams) :
       /\ streams[q].open /\ mailbox[q] = <<>>
       /\ LET r == on_timeout(Hub, streams[q], q) IN
          /\ ApplyHub(r.hub)
          /\ streams' = [streams EXCEPT ![q].open = r.open]
          /\ delivered' = [delivered EXCEPT ![q] = Append(@, r.frame)]
  /\ UNCHANGED <<published, clock>>
  /\ UNCHANGED <<jobs, active_jobs, job_events, jobs_file, ready, last,
                 jobs_router>>

\* The client of stream q goes away: the generator is cancelled or closed
\* where it waits, and its `finally` awaits remove_connection
HubDisconnect ==
  /\ budget > 0 /\ budget' = budget - 1
  /\ \E q \in 1..Len(streams) :
       /\ streams[q].open
       /\ ApplyHub(remove_connection(Hub, streams[q].topic, streams[q].job,
                                     q))
       /\ streams' = [streams EXCEPT ![q].open = FALSE]
  /\ UNCHANGED <<delivered, published, clock>>
  /\ UNCHANGED <<jobs, active_jobs, job_events, jobs_file, ready, last,
                 jobs_router>>

StreamInit ==
  /\ jobs = [id \in JobIds |-> NoJob]
  /\ active_jobs = {}
  /\ job_events = [id \in JobIds |-> <<>>]
  /\ jobs_file = [id \in JobIds |-> NoJob]
  /\ ready = <<>>
  /\ last = [op |-> "init", id |-> 0, pre |-> "absent", ret |-> TRUE,
             err |-> "none", http |-> 0]
  /\ jobs_router = FreshManager
  /\ budget = MaxStreamOps
  /\ SetHub(FreshHub)
  /\ streams = <<>> /\ delivered = <<>> /\ published = <<>>
  /\ clock = 0

StreamNext ==
  \/ HubSubscribe
  \/ HubPublish
  \/ HubDeliver
  \/ HubTimeout
  \/ HubDisconnect

StreamSpec == StreamInit /\ [][StreamNext]_vars

\* ------------------------------------------------------------ step helpers
\* The step is the HTTP request `op` on job id (every request spends budget)
StepOf(op, id) ==
  budget' = budget - 1 /\ last'.op = op /\ last'.id = id

\* The step keeps job id in the table and does not put another job object
\* in its place (a create_job that drew the id of an existing job does)
SameJob(id) ==
  HasJob(jobs, id) /\ HasJob(jobs', id) /\ ~StepOf("create", id)

\* The transition graph of the job state machine
LegalTransitions ==
  {<<PENDING, RUNNING>>, <<PENDING, FAILED>>, <<PENDING, CANCELLED>>,
   <<RUNNING, COMPLETED>>, <<RUNNING, FAILED>>, <<RUNNING, CANCELLED>>}

\* ------------------------------------------------------------------ claims

\* C1: every change of a job's status, under any sequence of manager
\* operations, is one of the six transitions of the state machine.
C1_OnlyLegalTransitions ==
  [][\A id \in JobIds :
       (SameJob(id) /\ jobs'[id].status # jobs[id].status)
         => <<jobs[id].status, jobs'[id].status>> \in LegalTransitions]_vars

\* C2: start_job on a job that is RUNNING, COMPLETED, FAILED or CANCELLED
\* fails with InvalidState and leaves the job's status and error message as
\* they were.
C2_StartNonPendingLeavesJob ==
  [][\A id \in JobIds :
       (StepOf("start", id) /\ jobs[id].status \in JobStatus \ {PENDING})
         => /\ ~last'.ret
            /\ last'.err = InvalidState
            /\ jobs'[id].status = jobs[id].status
            /\ jobs'[id].error_message = jobs[id].error_message]_vars

\* C3: start_job on a PENDING job while MAX_CONCURRENT_JOBS jobs are RUNNING
\* fails with CapacityExceeded and launches no execution unit; while fewer
\* are RUNNING it succeeds, marks the job RUNNING and launches one unit.
C3_CapacityRejectsStart ==
  [][\A id \in JobIds :
       (StepOf("start", id) /\ jobs[id].status = PENDING)
         => IF RunningCount(jobs) >= MAX_CONCURRENT_JOBS
            THEN /\ ~last'.ret
                 /\ last'.err = CapacityExceeded
                 /\ ready' = ready
                 /\ active_jobs' = active_jobs
            ELSE /\ last'.ret
                 /\ jobs'[id].status = RUNNING
                 /\ Len(ready') = Len(ready) + 1
                 /\ ready'[Len(ready')].kind = "unit"
                 /\ ready'[Len(ready')].id = id]_vars

\* C3 witness: a third start was just rejected while two jobs are RUNNING
C3_Witness ==
  /\ last.op = "start" /\ last.pre = PENDING
  /\ last.err = CapacityExceeded
  /\ RunningCount(jobs) = MAX_CONCURRENT_JOBS

\* C4: in every reachable state at most MAX_CONCURRENT_JOBS jobs are RUNNING.
C4_RunningWithinLimit == RunningCount(jobs) <= MAX_CONCURRENT_JOBS

\* C4 witness: the limit is reached with both execution units still waiting
\* and a further job in the table asking for a slot
C4_Witness ==
  /\ RunningCount(jobs) = MAX_CONCURRENT_JOBS
  /\ Cardinality({i \in 1..Len(ready) : ready[i].kind = "unit"}) >= 2
  /\ \E id \in JobIds : HasJob(jobs, id) /\ jobs[id].status # RUNNING
  /\ last.op = "start"

\* C5: a start_job rejected for capacity leaves the job PENDING, and a
\* start_job on a PENDING job succeeds whenever a slot is free.
C5_RejectedStartStaysPending ==
  [][\A id \in JobIds :
       (StepOf("start", id) /\ jobs[id].status = PENDING)
         => IF RunningCount(jobs) >= MAX_CONCURRENT_JOBS
            THEN jobs'[id].status = PENDING
            ELSE last'.ret /\ jobs'[id].status = RUNNING]_vars

\* C6: start_job and cancel_job on an id that is not in the table fail with
\* NotFound and change neither the table, the active set, the event logs,
\* the persisted table nor the waiting tasks.
C6_UnknownIdChangesNothing ==
  [][\A id \in JobIds :
       ((StepOf("start", id) \/ StepOf("cancel", id)) /\ ~HasJob(jobs, id))
         => /\ ~last'.ret
            /\ last'.err = NotFound
            /\ UNCHANGED <<jobs, active_jobs, job_events, jobs_file,
                           ready>>]_vars

\* C6 witness: a cancel of an unknown id was just answered, with jobs in
\* the table and a stale file that a stray save would have rewritten
C6_Witness ==
  /\ last.op = "cancel" /\ last.pre = "absent" /\ last.err = NotFound
  /\ \E id \in JobIds : HasJob(jobs, id)
  /\ jobs_file # save_jobs(jobs)

\* C7: the start and cancel endpoints answer with their success message
\* only when the manager operation succeeded.
C7_EndpointReportsFailure ==
  (last.op \in {"start", "cancel"} /\ last.http = 200) => last.ret

\* A job that cancel_job took from RUNNING to CANCELLED: it was started, and
\* its execution unit never completed or failed it
CancelledWhileRunning(id) ==
  /\ jobs[id].status = CANCELLED
  /\ jobs[id].started_at # NoTime
  /\ jobs[id].model_path = NoMsg
  /\ jobs[id].error_message = NoMsg

\* C8: cancel_job on a RUNNING job leaves it CANCELLED with a completion
\* time, and the job stays CANCELLED in every later state.
C8_CancelledStaysCancelled ==
  [][\A id \in JobIds :
       /\ (StepOf("cancel", id) /\ jobs[id].status = RUNNING)
            => /\ jobs'[id].status = CANCELLED
               /\ jobs'[id].completed_at # NoTime
       /\ (SameJob(id) /\ CancelledWhileRunning(id))
            => jobs'[id].status = CANCELLED]_vars

\* C9: cancel_job on a job in a terminal state returns without error and
\* does not overwrite the completion time the job already has.
C9_CancelKeepsCompletionTime ==
  [][\A id \in JobIds :
       (StepOf("cancel", id) /\ jobs[id].status \in Terminal)
         => /\ last'.ret
            /\ (jobs[id].completed_at # NoTime
                  => jobs'[id].completed_at = jobs[id].completed_at)]_vars

\* C10: a successful create_job adds one job, under an id no job had,
\* PENDING with progress_percent 0 and current_epoch 0, and leaves every
\* job that existed unchanged.
C10_CreateAddsFreshJob ==
  [][\A id \in JobIds :
       (StepOf("create", id) /\ last'.ret)
         => /\ ~HasJob(jobs, id)
            /\ jobs'[id].status = PENDING
            /\ jobs'[id].progress_percent = <<0, 1>>
            /\ jobs'[id].current_epoch = 0
            /\ \A other \in JobIds \ {id} : jobs'[other] = jobs[other]]_vars

\* C11: the event log of a job never holds more than 1000 entries, and it
\* is always the most recent min(n, 1000) of the n events appended to it,
\* in append order (appending to a full log drops exactly the oldest).
C11_LogKeepsLast1000 ==
  \A id \in JobIds :
    LET log == job_events[id]
        n   == IF log = <<>> THEN 0 ELSE clock
    IN /\ Len(log) <= MAX_EVENTS
       /\ Len(log) = IF n < MAX_EVENTS THEN n ELSE MAX_EVENTS
       /\ \A i \in 1..Len(log) :
            log[i] = [event_type |-> "metrics",
                      data |-> n - Len(log) + i - 1]

\* C11 witness: a log of 1000 entries after more than 1000 appends
C11_Witness ==
  \E id \in JobIds : Len(job_events[id]) = MAX_EVENTS /\ clock > MAX_EVENTS

\* The event the manager appended last to the log of job id
LastEvent(id) == job_events[id][Len(job_events[id])]

\* C12: a progress callback for a RUNNING job with snapshot (e, t) sets the
\* job's metrics to the snapshot, current_epoch to e and progress_percent
\* to 100*e/t, appends one `metrics` event to the job's log, persists the
\* table and changes no other job.
C12_CallbackUpdatesRunningJob ==
  [][(last'.op = "callback" /\ jobs[last'.id].status = RUNNING)
       => LET id == last'.id
              m  == [epoch |-> Head(ready).epoch,
                     total_epochs |-> Head(ready).total]
          IN /\ jobs'[id].metrics = m
             /\ jobs'[id].current_epoch = m.epoch
             /\ jobs'[id].progress_percent = Percent(m.epoch, m.total_epochs)
             /\ job_events'[id] =
                  Append(job_events[id], [event_type |-> "metrics",
                                          data |-> m])
             /\ jobs_file' = save_jobs(jobs')
             /\ \A other \in JobIds \ {id} : jobs'[other] = jobs[other]]_vars

C14_NoRunningAfterLoad ==
  [][last'.op = "restart"
       => \A id \in JobIds :
            IF jobs_file'[id] = NoJob THEN jobs'[id] = NoJob
            ELSE /\ jobs'[id].status # RUNNING
                 /\ IF jobs_file'[id].status = RUNNING
                    THEN /\ jobs'[id].status = FAILED
                         /\ jobs'[id].error_message \notin {NoMsg, ""}
                    ELSE jobs'[id].status = jobs_file'[id].status]_vars

\* C14 witness: the table was just loaded from a file that holds a RUNNING
\* job, now FAILED, next to a job in another status
C14_Witness ==
  /\ last.op = "restart"
  /\ \E id \in JobIds :
       /\ jobs_file[id] # NoJob /\ jobs_file[id].status = RUNNING
       /\ jobs[id].status = FAILED /\ jobs[id].error_message = RestartMsg
  /\ \E id \in JobIds :
       /\ jobs_file[id] # NoJob /\ jobs_file[id].status = PENDING
       /\ jobs[id].status = PENDING

\* The fields of two job records agree (obj is the identity of the Python
\* object, not a field)
SameFields(a, b) == [a EXCEPT !.obj = 1] = [b EXCEPT !.obj = 1]

C16_FileEqualsMemory == jobs_file = save_jobs(jobs)

\* ------------------------------------------------------------ hub claims
\* The step is a call of a broadcast_* method, and the message it built
IsPublish == Len(published') = Len(published) + 1
NewMessage == published'[Len(published')]

\* the queues a message is broadcast to: the set of its topic and the set
\* of its job
Targets(m) ==
  connections[TopicOf(m.type)]
    \cup (IF m.job \in DOMAIN job_connections THEN job_connections[m.job]
          ELSE {})

Full(q) == Len(mailbox[q]) >= QUEUE_MAXSIZE

\* queue q is in no subscriber set of the dictionaries conns and jconns
InNoSet(conns, jconns, q) ==
  /\ \A t \in Topics : q \notin conns[t]
  /\ \A k \in DOMAIN jconns : q \notin jconns[k]

\* C17: a publish completes without waiting on any subscriber: for a
\* subscriber whose mailbox is full the message is dropped and the mailbox
\* stays as it is, the publisher is not blocked, and every other subscriber
\* of the topic receives the message.
C17_PublishNeverWaits ==
  [][(IsPublish /\ NewMessage.ser)
       => /\ putters' = putters
          /\ \A q \in Targets(NewMessage) :
               IF Full(q) THEN mailbox'[q] = mailbox[q]
               ELSE \E i \in 1..Len(mailbox'[q]) :
                      mailbox'[q][i] = NewMessage]_vars

\* C18: a mailbox whose enqueue fails during a publish, because it is full
\* or because the enqueue raised, is after that publish in no subscriber
\* set, neither a topic set nor a per-job set.
C18_FailedMailboxEvicted ==
  [][IsPublish
       => LET failed == IF NewMessage.ser
                        THEN {q \in Targets(NewMessage) : Full(q)}
                        ELSE Targets(NewMessage)
          IN \A q \in failed :
               InNoSet(connections', job_connections', q)]_vars

\* the frames stream q has received so far, read or still in its mailbox
Received(q) == delivered[q] \o mailbox[q]

\* a training event for job X: a message of broadcast_training_metrics
TrainingEvent(m, X) == m.type = "training_metrics" /\ m.job = X

\* C19: a live subscriber to topic `training` for job X whose mailbox does
\* not overflow receives every event published for job X, in the order in
\* which the events were published.
C19_ReceivesAllInOrder ==
  \A q \in 1..Len(streams) :
    (streams[q].topic = "training" /\ Len(Received(q)) < QUEUE_MAXSIZE)
      => LET rcv == Received(q)
             X   == streams[q].job
         IN /\ \A i \in (streams[q].since + 1)..Len(published) :
                 (TrainingEvent(published[i], X) /\ published[i].ser)
                   => \E j \in 1..Len(rcv) : rcv[j] = published[i]
            /\ \A i, j \in 1..Len(rcv) :
                 (i < j /\ TrainingEvent(rcv[i], X)
                    /\ TrainingEvent(rcv[j], X) /\ rcv[i].ts > rcv[j].ts)
                   => \E k \in 1..(i - 1) : rcv[k] = rcv[j]

\* C20: whenever the manager appends an event to a job's log (`metrics`,
\* `completed` or `error`) the event is also published to the hub.
C20_AppendedEventIsPublished ==
  [][\A id \in JobIds :
       Len(job_events'[id]) > Len(job_events[id])
         => /\ IsPublish
            /\ NewMessage.type \in {"job_update", "training_metrics"}]_vars

\* The step opens a stream, and the queue of the stream it opened
IsSubscribe == Len(streams') = Len(streams) + 1
NewStream == Len(streams')

\* C21: a subscriber that joins a topic for which a last-known payload is
\* cached finds that payload in its mailbox as soon as it has subscribed,
\* ahead of every event published afterwards.
C21_CachedPayloadFirst ==
  [][(IsSubscribe /\ streams'[NewStream].topic \in DOMAIN last_state)
       => /\ mailbox'[NewStream] # <<>>
          /\ mailbox'[NewStream][1].type
               = streams'[NewStream].topic \o "_state"]_vars

\* C22: every publish updates the last-known-payload cache of its topic.
C22_PublishUpdatesCache ==
  [][IsPublish => /\ TopicOf(NewMessage.type) \in DOMAIN last_state'
                  /\ last_state' # last_state]_vars

\* C23: the first frame a stream produces is the `connected` frame.
C23_ConnectedComesFirst ==
  \A q \in 1..Len(streams) :
    Received(q) # <<>> => Received(q)[1].type = "connected"

\* C24: once the client of a stream has disconnected, the stream's mailbox
\* is in no subscriber set, topic or per-job, and no later publish enqueues
\* to it.
C24_DisconnectedIsUnsubscribed ==
  [][\A q \in 1..Len(streams') :
       ~streams'[q].open
         => /\ InNoSet(connections', job_connections', q)
            /\ (q <= Len(streams) /\ ~streams[q].open /\ IsPublish)
                 => mailbox'[q] = mailbox[q]]_vars

\* C24 witness: a stream was closed by its client, and a message for its
\* topic and job that json.dumps accepts was published afterwards: the
\* stream never got it
C24_Witness ==
  \E q \in 1..Len(streams) :
    /\ ~streams[q].open
    /\ \E i \in (streams[q].since + 1)..Len(published) :
         /\ published[i].ser
         /\ TopicOf(published[i].type) = streams[q].topic
         /\ published[i].job = streams[q].job
         /\ \A j \in 1..Len(Received(q)) : Received(q)[j] # published[i]

\* C25: the per-job subscriber registry never holds an entry whose
\* subscriber set is empty.
C25_NoEmptyJobSet ==
  \A k \in DOMAIN job_connections : job_connections[k] # {}

\* The step is a timeout of the wait of stream q: a frame is yielded while
\* the mailbox is empty
IsTimeout(q) ==
  /\ mailbox[q] = <<>>
  /\ Len(delivered'[q]) = Len(delivered[q]) + 1

\* C26: a stream whose wait times out yields a `heartbeat` frame and keeps
\* streaming: the timeout does not end the stream and leaves its mailbox in
\* the subscriber sets of the hub.
C26_TimeoutYieldsHeartbeat ==
  [][\A q \in 1..Len(streams) :
       IsTimeout(q)
         => /\ delivered'[q][Len(delivered'[q])].type = "heartbeat"
            /\ streams'[q].open
            /\ connections' = connections
            /\ job_connections' = job_connections
            /\ mailbox' = mailbox]_vars

\* C26 witness: a stream that yielded its `connected` frame and then a
\* heartbeat is still open and still subscribed to its topic
C26_Witness ==
  \E q \in 1..Len(streams) :
    /\ streams[q].open
    /\ Len(delivered[q]) >= 2
    /\ delivered[q][1].type = "connected"
    /\ delivered[q][Len(delivered[q])].type = "heartbeat"
    /\ q \in connections[streams[q].topic]

\* ------------------------------------------------- endpoints and records
\* C27: pause and resume on an existing job always report "not
\* implemented" and change no job state.
C27_PauseResumeNotImplemented ==
  [][(last'.op \in {"pause", "resume"} /\ budget' = budget - 1
        /\ last'.pre # "absent")
       => /\ last'.http = 501
          /\ last'.err = NotImplemented
          /\ UNCHANGED <<jobs, active_jobs, job_events, jobs_file,
                         ready>>]_vars

\* C28: every job has 0 <= progress_percent <= 100 and current_epoch at
\* most its configured number of epochs.
C28_ProgressWithinBounds ==
  \A id \in JobIds :
    HasJob(jobs, id)
      => LET pp == jobs[id].progress_percent IN
         /\ pp[2] > 0
         /\ 0 <= pp[1] /\ pp[1] <= 100 * pp[2]
         /\ 0 <= jobs[id].current_epoch
         /\ jobs[id].current_epoch <= jobs[id].epochs

\* C28 witness: the callback of the last epoch has run: the job stands at
\* its configured number of epochs and at 100 percent
C28_Witness ==
  \E id \in JobIds :
    /\ HasJob(jobs, id)
    /\ jobs[id].current_epoch = jobs[id].epochs
    /\ jobs[id].metrics.epoch = jobs[id].epochs
    /\ jobs[id].progress_percent = <<100, 1>>

\* C29: every job whose status is FAILED has a non-empty error message.
C29_FailedHasMessage ==
  \A id \in JobIds :
    (HasJob(jobs, id) /\ jobs[id].status = FAILED)
      => jobs[id].error_message \notin {NoMsg, ""}

\* C30: once a job is terminal no operation changes its metrics, its
\* current_epoch, its progress_percent or its completion time, and an
\* error message that was written is never written again.
C30_TerminalIsImmutable ==
  [][\A id \in JobIds :
       (SameJob(id) /\ jobs[id].status \in Terminal)
         => /\ jobs'[id].metrics = jobs[id].metrics
            /\ jobs'[id].current_epoch = jobs[id].current_epoch
            /\ jobs'[id].progress_percent = jobs[id].progress_percent
            /\ jobs'[id].completed_at = jobs[id].completed_at
            /\ jobs[id].error_message # NoMsg
                 => jobs'[id].error_message = jobs[id].error_message]_vars

\* C33: in the event log of each job the `metrics` events stand in the order
\* of the runner's progress callbacks (epochs never go back) and all of them
\* precede the terminal `completed` or `error` event: no `metrics` event is
\* appended after the terminal event.
C33_MetricsBeforeTerminal ==
  \A id \in JobIds :
    \A i, j \in 1..Len(job_events[id]) :
      LET a == job_events[id][i]
          b == job_events[id][j]
      IN (i < j /\ b.event_type = "metrics")
           => /\ a.event_type \notin {"completed", "error"}
              /\ a.event_type = "metrics" => a.data.epoch <= b.data.epoch

\* C35: a job id is in the active set exactly when the job is RUNNING.
C35_ActiveIffRunning ==
  \A id \in JobIds :
    id \in active_jobs <=> (HasJob(jobs, id) /\ jobs[id].status = RUNNING)

\* C37: every job whose status is terminal has its completion timestamp.
C37_TerminalHasCompletedAt ==
  \A id \in JobIds :
    (HasJob(jobs, id) /\ jobs[id].status \in Terminal)
      => jobs[id].completed_at # NoTime

\* C38: a published event is enqueued at most once to the mailbox of any
\* one stream, also when the stream is registered both under a topic and
\* under a job id.
C38_EnqueuedAtMostOnce ==
  \A q \in 1..Len(streams) :
    \A i \in 1..Len(published) :
      Cardinality({j \in 1..Len(Received(q)) :
                     Received(q)[j] = published[i]}) <= 1


LaunchedUnits ==
  {i \in 1..Len(ready) : ready[i].kind = "unit" /\ ~ready[i].cancelled}

\* C36: the number of execution units that were launched and have not yet
\* finished never exceeds the concurrency limit, units whose job was marked
\* CANCELLED or FAILED in the meantime included.
C36_UnitsWithinLimit ==
  Cardinality(LaunchedUnits) <= MAX_CONCURRENT_JOBS

\* C34: every job that becomes RUNNING eventually reaches a terminal
\* status (COMPLETED, FAILED or CANCELLED), under weak fairness of the
\* steps of the event loop.
C34_RunningReachesTerminal ==
  \A id \in JobIds :
    (HasJob(jobs, id) /\ jobs[id].status = RUNNING)
      ~> (HasJob(jobs, id) /\ jobs[id].status \in Terminal)

\* C31: a failure to write the job table never reaches the caller: a
\* create_job, and a start_job or cancel_job whose preconditions hold,
\* returns success and leaves its transition in the table also when the
\* write is lost (the file is not the table as it now is).
C31_WriteFailureNotPropagated ==
  [][\A id \in JobIds :
       jobs_file' # save_jobs(jobs')
         => /\ StepOf("create", id)
                 => /\ last'.ret /\ last'.http = 200
                    /\ HasJob(jobs', id) /\ jobs'[id].status = PENDING
            /\ (StepOf("start", id) /\ HasJob(jobs, id)
                  /\ jobs[id].status = PENDING
                  /\ RunningCount(jobs) < MAX_CONCURRENT_JOBS)
                 => /\ last'.ret
                    /\ jobs'[id].status = RUNNING /\ id \in active_jobs'
            /\ (StepOf("cancel", id) /\ HasJob(jobs, id))
                 => /\ last'.ret
                    /\ jobs'[id].status = CANCELLED
                    /\ id \notin active_jobs']_vars

\* start_job returned True and the job is RUNNING in memory while the
\* file still holds it as PENDING: the write of the start was lost
C31_Witness ==
  /\ last.op = "start" /\ last.ret /\ last.pre = PENDING
  /\ jobs[last.id].status = RUNNING
  /\ jobs_file[last.id] # NoJob /\ jobs_file[last.id].status = PENDING

\* C39: the endpoints of both routers work on one job table: the job that
\* the last request created or started through one router is the same job
\* for get_job through the other router, and the RUNNING jobs of both
\* routers together stay within the concurrency limit.
C39_OneJobTable ==
  /\ last.op \in {"training_start", "jobs_create", "jobs_start"}
       => get_job_in(GlobalManager, last.id)
            = get_job_in(jobs_router, last.id)
  /\ RunningCount(jobs) + RunningCount(jobs_router.jobs)
       <= MAX_CONCURRENT_JOBS

====
